---- MODULE Spec2Model ----
(***************************************************************************)
(* Model of tools/src/bin/generate-bindings.rs: the generator that reads   *)
(* the SDK's api_symbols.csv and sdk.opts, synthesises a root header and   *)
(* hands it, with an allow-list, to bindgen.                               *)
(*                                                                         *)
(* Text is modelled as a sequence of tokens (characters, or fixed literal  *)
(* fragments of the format strings), so that parsing and formatting are    *)
(* computed character by character.                                        *)
(***************************************************************************)
EXTENDS Integers, Sequences, FiniteSets, TLC

VARIABLES pc, trace, file, symbols, bindings_header,
          allow_vars, allow_functions, backend_invoked, outfile

vars == <<pc, trace, file, symbols, bindings_header,
          allow_vars, allow_functions, backend_invoked, outfile>>

(***************************************************************************)
(* Bounds of the model.                                                    *)
(***************************************************************************)
\* Longest symbol file (in rows, the first row included) enumerated in full.
MaxRows == 3

(***************************************************************************)
(* Program constants.                                                      *)
(***************************************************************************)
VISIBILITY_PUBLIC == "+"
\* u16::MAX, the range of `let major: u16` / `let minor: u16`.
U16_MAX == 65535
\* Width of api_version: u32.
U32_BITS == 32
\* The shift of `(major as u32) << 16`.
VERSION_SHIFT == 16
\* The minimum width of the `{:08X}` format.
HEX_WIDTH == 8

(***************************************************************************)
(* Characters.                                                             *)
(***************************************************************************)
DecDigits == <<"0", "1", "2", "3", "4", "5", "6", "7", "8", "9">>
HexDigitsUpper == DecDigits \o <<"A", "B", "C", "D", "E", "F">>

IsDecDigit(c) == \E i \in 1..10 : DecDigits[i] = c
DecDigitValue(c) == (CHOOSE i \in 1..10 : DecDigits[i] = c) - 1

Range(s) == {s[i] : i \in 1..Len(s)}

(***************************************************************************)
(* str::split_once('.'): the text before and after the FIRST '.', or None  *)
(* (modelled as the empty tuple) when there is no '.'.                     *)
(***************************************************************************)
split_once(s) ==
    IF \E i \in 1..Len(s) : s[i] = "."
    THEN LET i == CHOOSE k \in 1..Len(s) :
                      s[k] = "." /\ \A j \in 1..(k - 1) : s[j] # "."
         IN  <<SubSeq(s, 1, i - 1), SubSeq(s, i + 1, Len(s))>>
    ELSE <<>>

(***************************************************************************)
(* str::parse::<u16>(): -1 stands for Err.  An empty string, a lone sign,  *)
(* any non-digit and any value above u16::MAX are errors; one leading '+'  *)
(* is accepted, a '-' is not (the type is unsigned).                       *)
(***************************************************************************)
RECURSIVE parse_digits(_, _)
parse_digits(s, acc) ==
    IF s = <<>> THEN acc
    ELSE IF ~IsDecDigit(Head(s)) THEN -1
    ELSE LET n == acc * 10 + DecDigitValue(Head(s))
         IN  IF n > U16_MAX THEN -1 ELSE parse_digits(Tail(s), n)

\* A plausible slip: the value is accumulated with wrapping arithmetic.
RECURSIVE parse_digits_wrapping(_, _)
parse_digits_wrapping(s, acc) ==
    IF s = <<>> THEN acc
    ELSE IF ~IsDecDigit(Head(s)) THEN -1
    ELSE parse_digits_wrapping(Tail(s),
                               (acc * 10 + DecDigitValue(Head(s))) % (U16_MAX + 1))

parse_u16_wrapping(s) ==
    IF s = <<>> THEN -1
    ELSE LET d == IF Head(s) = "+" THEN Tail(s) ELSE s
         IN  IF d = <<>> THEN -1 ELSE parse_digits_wrapping(d, 0)

parse_u16(s) ==
    IF s = <<>> THEN -1
    ELSE LET d == IF Head(s) = "+" THEN Tail(s) ELSE s
         IN  IF d = <<>> THEN -1 ELSE parse_digits(d, 0)

(***************************************************************************)
(* `((major as u32) << 16) | (minor as u32)`.  An unsigned integer of a    *)
(* given width is its tuple of bits, least significant first, so that the  *)
(* width of every intermediate value is explicit.                          *)
(***************************************************************************)
ToBits(n, width) == [i \in 1..width |-> (n \div (2 ^ (i - 1))) % 2]

\* `x as u32`: zero extension.
Widen(bits, width) == [i \in 1..width |-> IF i <= Len(bits) THEN bits[i] ELSE 0]

\* `x << n` at the width of x: the bits shifted out are lost.
Shl(bits, n) == [i \in 1..Len(bits) |-> IF i > n THEN bits[i - n] ELSE 0]

BitOr(a, b) == [i \in 1..Len(a) |-> IF a[i] = 1 \/ b[i] = 1 THEN 1 ELSE 0]

\* A plausible slip: the shift is done before widening, in 16 bits.
pack_version_narrow(major, minor) ==
    BitOr(Widen(Shl(ToBits(major, 16), VERSION_SHIFT), U32_BITS),
          Widen(ToBits(minor, 16), U32_BITS))

pack_version(major, minor) ==
    BitOr(Shl(Widen(ToBits(major, 16), U32_BITS), VERSION_SHIFT),
          Widen(ToBits(minor, 16), U32_BITS))

\* `let mut api_version: u32 = 0;`
ZeroVersion == [i \in 1..U32_BITS |-> 0]

(***************************************************************************)
(* ApiSymbols, and the outcome of load_symbols: either a panic or the      *)
(* struct.                                                                 *)
(***************************************************************************)
EmptySymbols ==
    [panicked |-> FALSE, api_version |-> ZeroVersion,
     headers |-> <<>>, functions |-> <<>>, variables |-> <<>>]

Panicked ==
    [panicked |-> TRUE, api_version |-> ZeroVersion,
     headers |-> <<>>, functions |-> <<>>, variables |-> <<>>]

(***************************************************************************)
(* The arms of `match name`.                                               *)
(***************************************************************************)
\* A plausible slip: the first Version row wins.
version_arm_first_wins(sym, value) ==
    LET v == split_once(value)
    IN  IF v = <<>> THEN Panicked
        ELSE LET major == parse_u16(v[1])
                 minor == parse_u16(v[2])
             IN  IF major = -1 \/ minor = -1 THEN Panicked
                 ELSE IF sym.api_version # ZeroVersion THEN sym
                 ELSE [sym EXCEPT !.api_version = pack_version(major, minor)]

version_arm(sym, value) ==
    LET v == split_once(value)
    IN  IF v = <<>> THEN Panicked
        ELSE LET major == parse_u16(v[1])
                 minor == parse_u16(v[2])
             IN  IF major = -1 \/ minor = -1 THEN Panicked
                 ELSE [sym EXCEPT !.api_version = pack_version(major, minor)]

\* A plausible slip: the value is inserted at the front.
header_arm_front(sym, value) == [sym EXCEPT !.headers = <<value>> \o @]

header_arm(sym, value) == [sym EXCEPT !.headers = Append(@, value)]

function_arm(sym, value) == [sym EXCEPT !.functions = Append(@, value)]

variable_arm(sym, value) == [sym EXCEPT !.variables = Append(@, value)]

\* A plausible slip: the visibility test is missing.
is_public_always(visibility) == TRUE

is_public(visibility) == visibility = VISIBILITY_PUBLIC

(***************************************************************************)
(* The body of `for record in reader.records()`.                           *)
(***************************************************************************)
process_record(sym, record) ==
    IF ~is_public(record.visibility) THEN sym
    ELSE CASE record.name = "Version"  -> version_arm(sym, record.value)
           [] record.name = "Header"   -> header_arm(sym, record.value)
           [] record.name = "Function" -> function_arm(sym, record.value)
           [] record.name = "Variable" -> variable_arm(sym, record.value)
           [] OTHER -> sym

(***************************************************************************)
(* csv::Reader::from_path builds the reader with the ReaderBuilder         *)
(* defaults, has_headers(true): the first row of the file is the header    *)
(* row and records() does not yield it.                                    *)
(***************************************************************************)
\* A plausible slip (or a reader built with has_headers(false)).
records_no_header(rows) == rows

records(rows) == IF rows = <<>> THEN <<>> ELSE Tail(rows)

RECURSIVE load_loop(_, _)
load_loop(recs, sym) ==
    IF recs = <<>> THEN sym
    ELSE LET next == process_record(sym, Head(recs))
         IN  IF next.panicked THEN next ELSE load_loop(Tail(recs), next)

load_symbols(rows) == load_loop(records(rows), EmptySymbols)

(***************************************************************************)
(* format!("{:08X}", n): uppercase hexadecimal, zero-padded to 8.          *)
(***************************************************************************)
\* The hexadecimal digits of a value, most significant first, without
\* leading zeros (at least one digit).
Nibble(bits, k) ==
    bits[4 * k - 3] + 2 * bits[4 * k - 2] + 4 * bits[4 * k - 1] + 8 * bits[4 * k]

RECURSIVE strip_zeros(_)
strip_zeros(s) ==
    IF Len(s) > 1 /\ Head(s) = "0" THEN strip_zeros(Tail(s)) ELSE s

to_hex(bits, digits) ==
    LET n == Len(bits) \div 4
    IN  strip_zeros([k \in 1..n |-> digits[Nibble(bits, n + 1 - k) + 1]])

pad_zero(s, width) ==
    IF Len(s) >= width THEN s
    ELSE [i \in 1..(width - Len(s)) |-> "0"] \o s

\* A plausible slip: `{:X}`, no padding.
format_08X_unpadded(n) == to_hex(n, HexDigitsUpper)

format_08X(n) == pad_zero(to_hex(n, HexDigitsUpper), HEX_WIDTH)

RECURSIVE join(_, _)
join(lines, sep) ==
    IF lines = <<>> THEN <<>>
    ELSE IF Len(lines) = 1 THEN lines[1]
    ELSE lines[1] \o <<sep>> \o join(Tail(lines), sep)

generate_bindings_header(api_symbols) ==
    LET first == <<"#define API_VERSION 0x">> \o format_08X(api_symbols.api_version)
        includes == [i \in 1..Len(api_symbols.headers) |->
                        <<"#include \"">> \o api_symbols.headers[i] \o <<"\"">>]
    IN  join(<<first>> \o includes, "\n")

(***************************************************************************)
(* Inputs: the rows of api_symbols.csv.  A row is its first three fields,  *)
(* (name, visibility, value); the value is text.                           *)
(***************************************************************************)
Row(n, vis, val) == [name |-> n, visibility |-> vis, value |-> val]

RECURSIVE Decimal(_)
Decimal(n) ==
    IF n < 10 THEN <<DecDigits[n + 1]>>
    ELSE Decimal(n \div 10) \o <<DecDigits[(n % 10) + 1]>>

VersionText(major, minor) == Decimal(major) \o <<".">> \o Decimal(minor)

\* Version components the inputs are built from (both ends of the u16 range).
TestNumbers == {0, 1, 2, 255, 65535}

\* Well-formed version values, each with the numbers it denotes.
WellFormedVersions ==
    {[text |-> VersionText(a, b), major |-> a, minor |-> b] :
        a \in TestNumbers, b \in TestNumbers}
    \cup {[text |-> <<"+", "1", ".", "2">>, major |-> 1, minor |-> 2],
          [text |-> <<"0", "1", ".", "0", "0", "2">>, major |-> 1, minor |-> 2],
          [text |-> <<"6", "5", "5", "3", "4", ".", "9">>, major |-> 65534, minor |-> 9],
          [text |-> <<"3", ".", "4", "0", "9", "6">>, major |-> 3, minor |-> 4096]}

\* Malformed version values: no dot, a non-numeric or empty component, a
\* component outside [0, 65535], more than two components.
MalformedVersions ==
    { <<>>,
      <<"1", "2">>,
      <<"a", ".", "1">>,
      <<"1", ".", "a">>,
      <<"1", ".">>,
      <<".", "1">>,
      <<".">>,
      <<"1", ".", "2", ".", "3">>,
      <<"1", ".", ".", "2">>,
      <<"-", "1", ".", "2">>,
      <<"1", ".", "+">>,
      <<"1", " ", ".", "2">>,
      <<"0", "x", "1", ".", "2">>,
      <<"6", "5", "5", "3", "6", ".", "0">>,
      <<"0", ".", "6", "5", "5", "3", "6">>,
      <<"1", ".", "7", "0", "0", "0", "0">>,
      <<"1", "3", "1", "0", "7", "3", ".", "1">>,
      <<"1", ".", "6", "5", "5", "3", "7">> }

IsWellFormed(value) == \E w \in WellFormedVersions : w.text = value
IsMalformed(value) == value \in MalformedVersions
Denoted(value) == CHOOSE w \in WellFormedVersions : w.text = value

\* Rows every symbol file up to MaxRows rows is built from.
SmallRows ==
    { Row("Version", "+", VersionText(1, 2)),
      Row("Version", "+", VersionText(2, 1)),
      Row("Version", "-", VersionText(2, 1)),
      Row("Version", "+", <<"1", ".", "2", ".", "3">>),
      Row("Version", "-", <<"1", "2">>),
      Row("Header", "+", <<"a", ".", "h">>),
      Row("Header", "+", <<"b", ".", "h">>),
      Row("Header", "-", <<"b", ".", "h">>),
      Row("Function", "+", <<"f">>),
      Row("Function", "+", <<"g">>),
      Row("Variable", "+", <<"v">>),
      Row("Variable", "+", <<"w">>),
      Row("entry", "status", <<"name">>),
      Row("Other", "+", <<"z">>) }

\* Version rows over every version value, public and not.
VersionRows ==
    {Row("Version", vis, val) :
        vis \in {"+", "-", "", "++"},
        val \in {w.text : w \in WellFormedVersions} \cup MalformedVersions}

\* The header row of the SDK's api_symbols.csv.
CsvHeaderRow == Row("entry", "status", <<"name">>)

\* Rows of the longer files that exercise order and duplicates in the lists.
ListRows ==
    { Row("Header", "+", <<"a", ".", "h">>),
      Row("Header", "+", <<"b", ".", "h">>),
      Row("Header", "-", <<"a", ".", "h">>),
      Row("Function", "+", <<"f">>),
      Row("Variable", "+", <<"v">>) }

SymbolFiles ==
    UNION {[1..n -> SmallRows] : n \in 0..MaxRows}
    \cup {<<CsvHeaderRow>> \o rows : rows \in [1..4 -> ListRows]}
    \cup {<<r>> : r \in VersionRows}
    \cup {<<CsvHeaderRow, r>> : r \in VersionRows}
    \cup {<<CsvHeaderRow, r, Row("Header", "+", <<"a", ".", "h">>)>> : r \in VersionRows}

(***************************************************************************)
(* main(): one action per stage.  Every stage either completes or panics;  *)
(* trace records what each stage that ran found.                           *)
(***************************************************************************)
Event(stage, ok) == [stage |-> stage, ok |-> ok]

Init ==
    /\ pc = "parse_args"
    /\ trace = <<>>
    /\ file = <<>>
    /\ symbols = EmptySymbols
    /\ bindings_header = <<>>
    /\ allow_vars = <<>>
    /\ allow_functions = <<>>
    /\ backend_invoked = FALSE
    /\ outfile = "absent"

\* One stage with nothing but its outcome: on to `next`, or the panic.
Stage(here, ok, next) ==
    /\ pc = here
    /\ trace' = Append(trace, Event(here, ok))
    /\ pc' = IF ok THEN next ELSE "panic"

\* parse_args() and `matches.get_one::<PathBuf>("sdk").unwrap()`.
main_parse_args ==
    /\ \E ok \in BOOLEAN : Stage("parse_args", ok, "sdk_dir")
    /\ UNCHANGED <<file, symbols, bindings_header, allow_vars, allow_functions,
                   backend_invoked, outfile>>

\* `if !sdk.is_dir() { panic!(...) }`
main_sdk_dir ==
    /\ \E is_dir \in BOOLEAN : Stage("sdk_dir", is_dir, "toolchain")
    /\ UNCHANGED <<file, symbols, bindings_header, allow_vars, allow_functions,
                   backend_invoked, outfile>>

\* A plausible slip: the missing toolchain is reported but the run goes on.
main_toolchain_warn_only ==
    /\ pc = "toolchain"
    /\ \E is_dir \in BOOLEAN : trace' = Append(trace, Event("toolchain", is_dir))
    /\ pc' = "load_sdk_opts"
    /\ UNCHANGED <<file, symbols, bindings_header, allow_vars, allow_functions,
                   backend_invoked, outfile>>

\* `if !toolchain.is_dir() { panic!(...) }`
main_toolchain ==
    /\ \E is_dir \in BOOLEAN : Stage("toolchain", is_dir, "load_sdk_opts")
    /\ UNCHANGED <<file, symbols, bindings_header, allow_vars, allow_functions,
                   backend_invoked, outfile>>

\* load_sdk_opts(): the file opens and parses, or the run panics.
main_load_sdk_opts ==
    /\ \E ok \in BOOLEAN : Stage("load_sdk_opts", ok, "load_symbols")
    /\ UNCHANGED <<file, symbols, bindings_header, allow_vars, allow_functions,
                   backend_invoked, outfile>>

\* load_symbols(): the file does not open, or its rows are read and filtered.
main_load_symbols ==
    /\ pc = "load_symbols"
    /\ \/ /\ Stage("load_symbols", FALSE, "panic")
          /\ UNCHANGED <<file, symbols>>
       \/ \E rows \in SymbolFiles :
            LET result == load_symbols(rows)
            IN  /\ file' = rows
                /\ symbols' = result
                /\ Stage("load_symbols", ~result.panicked, "generate_bindings_header")
    /\ UNCHANGED <<bindings_header, allow_vars, allow_functions,
                   backend_invoked, outfile>>

main_generate_bindings_header ==
    /\ Stage("generate_bindings_header", TRUE, "split_cc_args")
    /\ bindings_header' = generate_bindings_header(symbols)
    /\ UNCHANGED <<file, symbols, allow_vars, allow_functions,
                   backend_invoked, outfile>>

\* A plausible slip: `.unwrap_or_default()` instead of `.expect(...)`.
main_split_cc_args_lenient ==
    /\ pc = "split_cc_args"
    /\ \E ok \in BOOLEAN : trace' = Append(trace, Event("split_cc_args", ok))
    /\ pc' = "builder"
    /\ UNCHANGED <<file, symbols, bindings_header, allow_vars, allow_functions,
                   backend_invoked, outfile>>

\* shlex::split(...).expect(...): None on an unterminated quote or escape.
main_split_cc_args ==
    /\ \E ok \in BOOLEAN : Stage("split_cc_args", ok, "builder")
    /\ UNCHANGED <<file, symbols, bindings_header, allow_vars, allow_functions,
                   backend_invoked, outfile>>

\* A plausible slip: the functions are allow-listed as variables.
main_builder_vars_only ==
    /\ Stage("builder", TRUE, "generate")
    /\ allow_vars' = <<<<"API_VERSION">>>> \o symbols.functions \o symbols.variables
    /\ allow_functions' = <<>>
    /\ UNCHANGED <<file, symbols, bindings_header, backend_invoked, outfile>>

\* bindgen::builder() ... allowlist_var / allowlist_function.
main_builder ==
    /\ Stage("builder", TRUE, "generate")
    /\ allow_vars' = <<<<"API_VERSION">>>> \o symbols.variables
    /\ allow_functions' = symbols.functions
    /\ UNCHANGED <<file, symbols, bindings_header, backend_invoked, outfile>>

\* bindings.generate().expect(...)
main_generate ==
    /\ \E ok \in BOOLEAN : Stage("generate", ok, "write_to_file")
    /\ backend_invoked' = TRUE
    /\ UNCHANGED <<file, symbols, bindings_header, allow_vars, allow_functions,
                   outfile>>

\* bindings.write_to_file(outfile).expect(...): a failed write leaves the file
\* as it was or partly written.
main_write_to_file ==
    /\ \E result \in {"written", "partial", "absent"} :
          /\ Stage("write_to_file", result = "written", "done")
          /\ outfile' = result
    /\ UNCHANGED <<file, symbols, bindings_header, allow_vars, allow_functions,
                   backend_invoked>>

Next ==
    \/ main_parse_args
    \/ main_sdk_dir
    \/ main_toolchain
    \/ main_load_sdk_opts
    \/ main_load_symbols
    \/ main_generate_bindings_header
    \/ main_split_cc_args
    \/ main_builder
    \/ main_generate
    \/ main_write_to_file

Spec == Init /\ [][Next]_vars

(***************************************************************************)
(* Vocabulary of the properties.                                           *)
(***************************************************************************)
Last(s) == s[Len(s)]

\* load_symbols has just read `file` (and returned `symbols`, or panicked).
RowsRead ==
    /\ trace # <<>>
    /\ Last(trace).stage = "load_symbols"
    /\ (Last(trace).ok \/ symbols.panicked)

Returned == RowsRead /\ ~symbols.panicked

RemoveAt(s, i) == SubSeq(s, 1, i - 1) \o SubSeq(s, i + 1, Len(s))

IsPublicRow(r, kind) == r.visibility = "+" /\ r.name = kind

\* The value fields of the public rows of one kind, in row order.
PublicValues(rows, kind) ==
    LET sel == SelectSeq(rows, LAMBDA r : IsPublicRow(r, kind))
    IN  [i \in 1..Len(sel) |-> sel[i].value]

\* The number a field of bits lo..hi denotes.
RECURSIVE BitsValue(_, _, _)
BitsValue(bits, lo, hi) ==
    IF lo > hi THEN 0 ELSE bits[lo] + 2 * BitsValue(bits, lo + 1, hi)

\* api_version is (major << 16) | minor with nothing lost: the high half is
\* major and the low half is minor.
IsPacked(version, major, minor) ==
    /\ Len(version) = 32
    /\ BitsValue(version, 17, 32) = major
    /\ BitsValue(version, 1, 16) = minor

\* Indices from `from` on of the public Version rows of `rows`.
PublicVersionRows(rows, from) ==
    {i \in from..Len(rows) : IsPublicRow(rows[i], "Version")}

Max(S) == CHOOSE x \in S : \A y \in S : y <= x

RowsAfterFirst(rows) == IF rows = <<>> THEN <<>> ELSE Tail(rows)

(***************************************************************************)
(* C1.                                                                     *)
(***************************************************************************)
\* C1 as stated: for every row of the symbol file whose visibility is not
\* exactly "+", load_symbols gives what it gives for the file without that
\* row (the same ApiSymbols, or the same failure).
C1_NonPublicRowNeverInfluences ==
    RowsRead =>
        \A i \in 1..Len(file) :
            file[i].visibility # "+" => load_symbols(RemoveAt(file, i)) = symbols

\* C1 amended: for every row other than the first row of the file (which the
\* CSV reader consumes as the header row) whose visibility is not exactly "+",
\* load_symbols gives what it gives for the file without that row; a
\* non-public Version row with any value neither changes api_version nor
\* causes a failure.
C1_NonPublicDataRowNeverInfluences ==
    RowsRead =>
        \A i \in 2..Len(file) :
            file[i].visibility # "+" => load_symbols(RemoveAt(file, i)) = symbols

\* A non-public Version row with a malformed value was read, after the first
\* row, and load_symbols returned symbols from the rows around it.
C1_Witness ==
    /\ Returned
    /\ \E i \in 2..Len(file) :
          /\ file[i].name = "Version"
          /\ file[i].visibility # "+"
          /\ IsMalformed(file[i].value)
    /\ symbols.headers # <<>>

(***************************************************************************)
(* C2.                                                                     *)
(***************************************************************************)
\* C2 as stated: when load_symbols returns, and the last public Version row
\* of the file is "<major>.<minor>" with both in [0, 65535], api_version is
\* (major << 16) | minor, nothing lost.
C2_EveryVersionRowPacked ==
    Returned =>
        LET S == PublicVersionRows(file, 1)
        IN  (S # {} /\ IsWellFormed(file[Max(S)].value)) =>
                LET w == Denoted(file[Max(S)].value)
                IN  IsPacked(symbols.api_version, w.major, w.minor)

\* C2 amended: the same for the last public Version row after the first row
\* of the file (the first row is the CSV header row and is not read as a
\* record).
C2_DataVersionRowPacked ==
    Returned =>
        LET S == PublicVersionRows(file, 2)
        IN  (S # {} /\ IsWellFormed(file[Max(S)].value)) =>
                LET w == Denoted(file[Max(S)].value)
                IN  IsPacked(symbols.api_version, w.major, w.minor)

\* The public row Version,+,65535.65535 was read after the first row.
C2_Witness ==
    /\ Returned
    /\ \E i \in 2..Len(file) :
          /\ IsPublicRow(file[i], "Version")
          /\ file[i].value = VersionText(65535, 65535)
    /\ \A k \in 1..32 : symbols.api_version[k] = 1

(***************************************************************************)
(* C3.                                                                     *)
(***************************************************************************)
\* C3 as stated: a public Version row with a malformed value anywhere in the
\* file makes load_symbols panic: no ApiSymbols, no later stage.
C3_EveryMalformedVersionFatal ==
    RowsRead =>
        ((\E i \in 1..Len(file) :
             IsPublicRow(file[i], "Version") /\ IsMalformed(file[i].value))
         => (symbols = Panicked /\ pc = "panic" /\ ~Last(trace).ok))

\* C3 amended: a public Version row with a malformed value anywhere after
\* the first row of the file (the CSV header row) makes load_symbols panic:
\* no ApiSymbols is produced and no later stage runs.
C3_MalformedDataVersionFatal ==
    RowsRead =>
        ((\E i \in 2..Len(file) :
             IsPublicRow(file[i], "Version") /\ IsMalformed(file[i].value))
         => (symbols = Panicked /\ pc = "panic" /\ ~Last(trace).ok))

\* The public row Version,+,65536.0 (major out of range) was read and the
\* run panicked.
C3_Witness ==
    /\ RowsRead
    /\ symbols.panicked
    /\ pc = "panic"
    /\ \E i \in 2..Len(file) :
          /\ IsPublicRow(file[i], "Version")
          /\ file[i].value = <<"6", "5", "5", "3", "6", ".", "0">>

(***************************************************************************)
(* C4.                                                                     *)
(***************************************************************************)
\* C4 as stated: the three lists are the values of the public Header,
\* Function and Variable rows of the file, in row order, duplicates kept.
C4_ListsAreAllPublicRows ==
    Returned =>
        /\ symbols.headers = PublicValues(file, "Header")
        /\ symbols.functions = PublicValues(file, "Function")
        /\ symbols.variables = PublicValues(file, "Variable")

\* C4 amended: the three lists are the values of the public Header, Function
\* and Variable rows that follow the first row of the file (the CSV header
\* row), in row order, duplicates kept, nothing added, dropped or reordered.
C4_ListsAreDataRows ==
    Returned =>
        /\ symbols.headers = PublicValues(RowsAfterFirst(file), "Header")
        /\ symbols.functions = PublicValues(RowsAfterFirst(file), "Function")
        /\ symbols.variables = PublicValues(RowsAfterFirst(file), "Variable")

\* Headers b.h, a.h, b.h were read in that order: out of alphabetical order
\* and with a duplicate.
C4_Witness ==
    /\ Returned
    /\ symbols.headers = << <<"b", ".", "h">>, <<"a", ".", "h">>, <<"b", ".", "h">> >>

(***************************************************************************)
(* C5.                                                                     *)
(***************************************************************************)
\* The lines of a text: the tokens between its "\n" tokens.
RECURSIVE SplitLines(_, _)
SplitLines(text, line) ==
    IF text = <<>> THEN <<line>>
    ELSE IF Head(text) = "\n" THEN <<line>> \o SplitLines(Tail(text), <<>>)
    ELSE SplitLines(Tail(text), Append(line, Head(text)))

UpperHexValue(c) == (CHOOSE i \in 1..16 : HexDigitsUpper[i] = c) - 1

HeaderGenerated == trace # <<>> /\ Last(trace).stage = "generate_bindings_header"

\* C5: the synthesised header has 1 + len(headers) lines; the first is
\* "#define API_VERSION 0x" followed by exactly 8 uppercase hexadecimal digits
\* that denote api_version; line i + 1 is #include "<headers[i]>", in order,
\* without deduplication.
C5_HeaderText ==
    HeaderGenerated =>
        LET lines == SplitLines(bindings_header, <<>>)
        IN  /\ Len(lines) = 1 + Len(symbols.headers)
            /\ Len(lines[1]) = 9
            /\ lines[1][1] = "#define API_VERSION 0x"
            /\ \A k \in 1..8 :
                  /\ lines[1][k + 1] \in Range(HexDigitsUpper)
                  /\ UpperHexValue(lines[1][k + 1])
                        = BitsValue(symbols.api_version, 4 * (8 - k) + 1, 4 * (8 - k) + 4)
            /\ \A i \in 1..Len(symbols.headers) :
                  lines[i + 1] = <<"#include \"">> \o symbols.headers[i] \o <<"\"">>

\* A header was synthesised for version 255.65535 (0x00FFFFFF: zero padding
\* and letter digits) with at least one include.
C5_Witness ==
    /\ HeaderGenerated
    /\ IsPacked(symbols.api_version, 255, 65535)
    /\ symbols.headers # <<>>

(***************************************************************************)
(* C6.                                                                     *)
(***************************************************************************)
ToolchainMissing ==
    \E i \in 1..Len(trace) : trace[i] = Event("toolchain", FALSE)

\* C6: once the toolchain directory was found missing, the backend is never
\* invoked and bindings.rs is never written: the run has stopped there.
C6_NoBackendAfterMissingToolchain ==
    ToolchainMissing =>
        /\ ~backend_invoked
        /\ outfile = "absent"
        /\ allow_vars = <<>> /\ allow_functions = <<>>
        /\ Last(trace) = Event("toolchain", FALSE)
        /\ pc = "panic"

\* The SDK directory exists and its toolchain directory does not.
C6_Witness ==
    /\ ToolchainMissing
    /\ \E i \in 1..Len(trace) : trace[i] = Event("sdk_dir", TRUE)

(***************************************************************************)
(* C8.                                                                     *)
(***************************************************************************)
API_VERSION == <<"API_VERSION">>

\* C8: the allow-list never holds a name other than API_VERSION and the
\* variables (as variables) and the functions (as functions); when the
\* backend is invoked it holds all of them.
C8_AllowListExact ==
    /\ Range(allow_vars) \subseteq {API_VERSION} \cup Range(symbols.variables)
    /\ Range(allow_functions) \subseteq Range(symbols.functions)
    /\ backend_invoked =>
          /\ Range(allow_vars) = {API_VERSION} \cup Range(symbols.variables)
          /\ Range(allow_functions) = Range(symbols.functions)

\* The backend was invoked with functions and variables to allow, not the
\* same names.
C8_Witness ==
    /\ backend_invoked
    /\ symbols.functions # <<>>
    /\ symbols.variables # <<>>
    /\ Range(symbols.functions) \cap Range(symbols.variables) = {}

(***************************************************************************)
(* C9.                                                                     *)
(***************************************************************************)
\* The stages the claim lists, in its order.
ClaimedStages ==
    <<"sdk_dir", "toolchain", "load_sdk_opts", "load_symbols",
      "generate_bindings_header", "split_cc_args", "generate">>

\* C9: a failed stage is the last thing the run does, and it leaves no
\* output file unless it is the write itself; the output file is touched only
\* after the listed stages have all succeeded, once each, in the listed
\* order.
C9_LinearFailFast ==
    /\ \A i \in 1..Len(trace) :
          ~trace[i].ok =>
              /\ i = Len(trace)
              /\ pc = "panic"
              /\ trace[i].stage # "write_to_file" => outfile = "absent"
    /\ outfile # "absent" =>
          LET listed == SelectSeq(trace,
                            LAMBDA e : e.stage \in Range(ClaimedStages))
          IN  listed = [i \in 1..Len(ClaimedStages) |->
                            Event(ClaimedStages[i], TRUE)]

\* A run went through every stage and wrote bindings.rs.
C9_Witness ==
    /\ pc = "done"
    /\ outfile = "written"
    /\ symbols.functions # <<>>

(***************************************************************************)
(* C10.                                                                    *)
(***************************************************************************)
NeutralRow == Row("Other", "+", <<"z">>)

\* The file with every public Version row before index `last` replaced by a
\* row the filter ignores.
WithoutEarlierVersions(rows, last) ==
    [i \in 1..Len(rows) |->
        IF i < last /\ IsPublicRow(rows[i], "Version") THEN NeutralRow ELSE rows[i]]

\* C10: when the file holds several public well-formed Version rows and
\* load_symbols returns, api_version is the packed value of the last of them,
\* and the result is the one the file gives with the earlier ones blanked.
C10_LastVersionWins ==
    Returned =>
        LET S == {i \in PublicVersionRows(file, 1) : IsWellFormed(file[i].value)}
        IN  Cardinality(S) >= 2 =>
                LET w == Denoted(file[Max(S)].value)
                IN  /\ IsPacked(symbols.api_version, w.major, w.minor)
                    /\ symbols = load_symbols(WithoutEarlierVersions(file, Max(S)))

\* Two public Version rows with different values were read after the first
\* row, 1.2 then 2.1.
C10_Witness ==
    /\ Returned
    /\ Len(file) >= 3
    /\ IsPublicRow(file[2], "Version") /\ file[2].value = VersionText(1, 2)
    /\ IsPublicRow(file[3], "Version") /\ file[3].value = VersionText(2, 1)

(***************************************************************************)
(* C7.                                                                     *)
(***************************************************************************)
\* C7 as stated: every row of the file, the first included, goes through the
\* filter.
C7_EveryRowProcessed ==
    RowsRead => symbols = load_loop(file, EmptySymbols)

\* C7 amended: the first row of the file is consumed as the CSV header row
\* and never reaches the filter, whatever it holds; every row after it does,
\* so a public Header, Function or Variable row contributes its value exactly
\* when it is not the first row of the file.
C7_FirstRowIsHeader ==
    RowsRead =>
        /\ file # <<>> =>
              \A r \in SmallRows : load_symbols(<<r>> \o Tail(file)) = symbols
        /\ ~symbols.panicked =>
              /\ \A i \in 2..Len(file) :
                    /\ IsPublicRow(file[i], "Header")
                          => file[i].value \in Range(symbols.headers)
                    /\ IsPublicRow(file[i], "Function")
                          => file[i].value \in Range(symbols.functions)
                    /\ IsPublicRow(file[i], "Variable")
                          => file[i].value \in Range(symbols.variables)
              /\ Len(symbols.headers) + Len(symbols.functions) + Len(symbols.variables)
                    = Cardinality({i \in 2..Len(file) :
                          \/ IsPublicRow(file[i], "Header")
                          \/ IsPublicRow(file[i], "Function")
                          \/ IsPublicRow(file[i], "Variable")})

\* A public Header row came first and a different public Header row second:
\* only the second is in the headers.
C7_Witness ==
    /\ Returned
    /\ Len(file) >= 2
    /\ IsPublicRow(file[1], "Header")
    /\ IsPublicRow(file[2], "Header")
    /\ file[1].value # file[2].value
    /\ symbols.headers = <<file[2].value>>

====
